---- MODULE Spec2Model ----
(***************************************************************************)
(* Proactive call scheduling and retry engine of the hotel voice-AI        *)
(* templates (lib/services/proactive): the four milestone schedulers, the  *)
(* dispatch sweep over ProactiveCall rows and the wake-up sweep over       *)
(* WakeUpRequest rows, over the relational store they share.               *)
(*                                                                         *)
(* Time is counted in minutes since an arbitrary local midnight.           *)
(***************************************************************************)
EXTENDS Integers, Sequences, FiniteSets, TLC

\* ------------------------------------------------------------------ bounds
NumRes == 1            \* reservations in the store
MaxScheduleTicks == 2  \* clock advances in a scheduling behaviour
MaxTicks == 3          \* clock advances in a dispatch behaviour
NumJobs == 2           \* jobs present when a dispatch behaviour starts
NumWake == 2           \* wake-up requests present when a wake-up behaviour starts
MaxOverlapTicks == 2   \* clock advances while dispatch invocations overlap
MaxWakeTicks == 3      \* clock advances in a wake-up behaviour
NumUpstream == 2       \* reservations the upstream system holds
MaxRequests == 2       \* trigger requests admitted in a trigger behaviour
MaxStopTicks == 2      \* clock advances in a behaviour with stopped invocations
Surplus == 1           \* jobs in the store beyond one batch
MaxLiveTicks == 3      \* clock advances in a behaviour of repeated sweeps

\* ------------------------------------------------------- program constants
Hour == 60
Day == 24 * Hour
BatchSize == 10        \* findMany take: 10
AttemptCeiling == 3    \* attempts: { lt: 3 }
WakeFailAt == 2        \* request.attempts >= 2

ResIds == 1..NumRes
DispIds == {1, 2}
CallTypes == {"PRE_ARRIVAL", "MID_STAY", "PRE_CHECKOUT", "POST_STAY"}
ResStatuses == {"CONFIRMED", "CHECKED_IN", "CHECKED_OUT", "CANCELLED"}
Rooms == {"101", "102"}

\* values the maxAttempts column takes (the column default lives in the
\* database schema; every job of a deployment created by the schedulers
\* gets the same one)
MaxAttemptsValues == {1, 3, 4}

Null == <<>>
Some(v) == <<v>>

VARIABLES
  now,              \* wall clock, minutes
  ticks,            \* number of clock advances so far
  reservations,     \* Reservation rows, id = index
  proactiveCalls,   \* sequence of ProactiveCall rows, id = index
  wakeUpRequests,   \* sequence of WakeUpRequest rows, id = index
  schemaMaxAttempts,\* default of ProactiveCall.maxAttempts
  dateFnsTruncates, \* TRUE: subDays truncates its amount toward zero (date-fns 2);
                    \* FALSE: the fraction reaches Date.setDate (date-fns 3 and later)
  disp,             \* [DispIds -> state of a processScheduledCalls invocation]
  wake,             \* state of the processWakeUpCalls invocation
  last,             \* last completed scheduling operation / store change
  gateway,          \* history: gateway calls placed per job and per wake-up request
  env,              \* process.env: which settings are present, and their values
  guests,           \* sequence of Guest rows, id = index
  pms,              \* the upstream property-management system's reservations and guests
  sync,             \* state of the syncFromPMS invocation
  toolWrites,       \* history: per reservation, the columns updateReservation wrote
  http,             \* state of the trigger route: the request served, the last response
  sched,            \* [SchedIds -> state of a schedulePreArrivalCalls invocation that
                    \* runs beside another]
  calls             \* Call rows, keyed by vapiCallId

vars == <<now, ticks, reservations, proactiveCalls, wakeUpRequests,
          schemaMaxAttempts, dateFnsTruncates, disp, wake, last, gateway,
          env, guests, pms, sync, toolWrites, http, sched, calls>>

\* ------------------------------------------------------- date-fns helpers
startOfDay(t) == t - (t % Day)
addDays(t, n) == t + n * Day
subDays(t, n) == addDays(t, 0 - n)
addHours(t, n) == t + n * Hour
setHours(t, h) == startOfDay(t) + h * Hour
isAfter(a, b) == a > b

\* ------------------------------------------------------------- the store
NewCall(r, type, at) ==
  [reservationId |-> r, callType |-> type, scheduledTime |-> at,
   status |-> "SCHEDULED", attempts |-> 0, maxAttempts |-> schemaMaxAttempts,
   actualTime |-> Null, vapiCallId |-> Null, notes |-> Null]

CallIds == DOMAIN proactiveCalls

\* proactiveCalls: { none: { callType } }
NoCallOfType(r, type) ==
  \A i \in CallIds :
    ~(proactiveCalls[i].reservationId = r /\ proactiveCalls[i].callType = type)

\* the orders in which findMany may return a set of rows
RECURSIVE Orders(_)
Orders(S) ==
  IF S = {} THEN {<<>>}
  ELSE UNION {{<<x>> \o rest : rest \in Orders(S \ {x})} : x \in S}

RECURSIVE CreateAll(_, _, _)
CreateAll(order, type, at) ==
  IF order = <<>> THEN <<>>
  ELSE <<NewCall(Head(order), type, at)>> \o CreateAll(Tail(order), type, at)

IdleDisp == [pc |-> "idle", now |-> 0, filter |-> Null, batch |-> <<>>, i |-> 1,
             processedCount |-> 0, result |-> Null, accepted |-> 0, rejected |-> 0,
             ret |-> Null]
IdleWake == [pc |-> "idle", now |-> 0 - 1, batch |-> <<>>, i |-> 1,
             reservation |-> Null, processedCount |-> 0, result |-> Null, ret |-> Null]

\* last: the scheduler that ran most recently and its return value, while it
\* is the most recent operation on the store, and the return value of the
\* invocation right before it when that was the same scheduler
NoLast == [op |-> "other", ret |-> 0, prev |-> Null]

\* no schedulePreArrivalCalls invocation runs beside another
SchedIds == {1, 2}
IdleSched == [pc |-> "idle", list |-> <<>>, scheduledCount |-> 0, ret |-> Null]
NoScheduling == [s \in SchedIds |-> IdleSched]

NoInvocation == (\A d \in DispIds : disp[d].pc = "idle") /\ wake.pc = "idle"

\* history of the outbound call gateway: calls placed and rejected per job,
\* calls placed per wake-up request, and the assistant requests sent for the jobs
NoGatewayCalls == [placed |-> <<>>, rejected |-> <<>>, wakePlaced |-> <<>>,
                   assistant |-> {}]

\* process.env with every setting the engine reads present
CronToken == <<"k", "e", "y">>
Configured == [VAPI_API_KEY |-> TRUE, VAPI_PHONE_NUMBER_ID |-> TRUE,
               PMS_API_URL |-> TRUE, PMS_API_KEY |-> TRUE,
               CRON_SECRET |-> Some(CronToken), NODE_ENV |-> "production"]

NoPMS == [reservations |-> <<>>, guests |-> <<>>]

\* header is history: the authorization header of the last request
IdleHttp == [pc |-> "idle", status |-> Null, header |-> Null, served |-> 0]
\* failed and outcome are history: the items that threw so far, and how the
\* last request or item ended
IdleSync == [pc |-> "idle", list |-> <<>>, i |-> 1, synced |-> 0, errors |-> 0,
             failed |-> {}, outcome |-> Null, ret |-> Null]
Count(f, k) == IF k \in DOMAIN f THEN f[k] ELSE 0
Bump(f, k) == (k :> (Count(f, k) + 1)) @@ f

\* ------------------------------------------------------------ scheduling
\* One milestone scheduler: select, then one create per selected reservation.
ScheduleOp(name, type, eligible, at) ==
  /\ NoInvocation
  /\ \E order \in Orders(eligible) :
       proactiveCalls' = proactiveCalls \o CreateAll(order, type, at)
  /\ last' = [op |-> name, ret |-> Cardinality(eligible),
               prev |-> IF last.op = name THEN Some(last.ret) ELSE Null]
  /\ UNCHANGED <<now, ticks, reservations, wakeUpRequests, schemaMaxAttempts,
                 dateFnsTruncates, calls, sched, http, env, guests, pms, sync, toolWrites, disp, wake, gateway>>

\* (variant: the selection without the proactiveCalls: { none } clause)
PreArrivalEligibleUnchecked ==
  LET tomorrow == addDays(startOfDay(now), 1)
      dayAfterTomorrow == addDays(tomorrow, 1)
  IN {r \in DOMAIN reservations :
        /\ reservations[r].status = "CONFIRMED"
        /\ reservations[r].checkInDate >= tomorrow
        /\ reservations[r].checkInDate < dayAfterTomorrow}

PreArrivalEligible ==
  LET tomorrow == addDays(startOfDay(now), 1)
      dayAfterTomorrow == addDays(tomorrow, 1)
  IN {r \in DOMAIN reservations :
        /\ reservations[r].status = "CONFIRMED"
        /\ reservations[r].checkInDate >= tomorrow
        /\ reservations[r].checkInDate < dayAfterTomorrow
        /\ NoCallOfType(r, "PRE_ARRIVAL")}

\* (variant: 4 PM of today whatever the hour)
PreArrivalTimeFixed == setHours(now, 16)

PreArrivalTime ==
  LET scheduledTime == setHours(now, 16)
  IN IF isAfter(now, scheduledTime) THEN addHours(now, 1) ELSE scheduledTime

schedulePreArrivalCalls ==
  ScheduleOp("preArrival", "PRE_ARRIVAL", PreArrivalEligible, PreArrivalTime)

MidStayEligible ==
  LET yesterday == subDays(startOfDay(now), 1)
      twoDaysAgo == subDays(yesterday, 1)
  IN {r \in DOMAIN reservations :
        /\ reservations[r].status = "CHECKED_IN"
        /\ reservations[r].checkInDate >= twoDaysAgo
        /\ reservations[r].checkInDate < yesterday
        /\ NoCallOfType(r, "MID_STAY")}

MidStayTime ==
  LET scheduledTime == setHours(now, 14)
  IN IF isAfter(now, scheduledTime) THEN addHours(now, 1) ELSE scheduledTime

scheduleMidStayCalls ==
  ScheduleOp("midStay", "MID_STAY", MidStayEligible, MidStayTime)

\* (variant: the selection without the proactiveCalls: { none } clause)
PreCheckoutEligibleUnchecked ==
  LET today == startOfDay(now)
      tomorrow == addDays(today, 1)
  IN {r \in DOMAIN reservations :
        /\ reservations[r].status = "CHECKED_IN"
        /\ reservations[r].checkOutDate >= today
        /\ reservations[r].checkOutDate < tomorrow}

PreCheckoutEligible ==
  LET today == startOfDay(now)
      tomorrow == addDays(today, 1)
  IN {r \in DOMAIN reservations :
        /\ reservations[r].status = "CHECKED_IN"
        /\ reservations[r].checkOutDate >= today
        /\ reservations[r].checkOutDate < tomorrow
        /\ NoCallOfType(r, "PRE_CHECKOUT")}

PreCheckoutTime ==
  LET scheduledTime == setHours(now, 8)
  IN IF isAfter(now, scheduledTime) THEN now ELSE scheduledTime

schedulePreCheckoutCalls ==
  ScheduleOp("preCheckout", "PRE_CHECKOUT", PreCheckoutEligible, PreCheckoutTime)

PostStayEligible ==
  LET twoDaysAgo == subDays(startOfDay(now), 2)
      threeDaysAgo == subDays(twoDaysAgo, 1)
  IN {r \in DOMAIN reservations :
        /\ reservations[r].status = "CHECKED_OUT"
        /\ reservations[r].checkOutDate >= threeDaysAgo
        /\ reservations[r].checkOutDate < twoDaysAgo
        /\ NoCallOfType(r, "POST_STAY")}

PostStayTime == setHours(now, 14)

schedulePostStayCalls ==
  ScheduleOp("postStay", "POST_STAY", PostStayEligible, PostStayTime)

\* ------------------------------------------------- environment of the store
\* the stays a reservation may carry (check-in day, check-out day), at midnight
\* as parseISO of a date yields them
Stays == {<<0, 1>>, <<2, 4>>, <<5, 7>>}
ReservationValues ==
  {[status |-> s, checkInDate |-> st[1] * Day, checkOutDate |-> st[2] * Day,
    roomNumber |-> room] : s \in ResStatuses, st \in Stays, room \in Rooms}

\* the guest journey: confirmed -> checked-in -> checked-out, cancelled from
\* anywhere before check-out
NextStatuses(s) ==
  CASE s = "CONFIRMED" -> {"CHECKED_IN", "CANCELLED"}
    [] s = "CHECKED_IN" -> {"CHECKED_OUT", "CANCELLED"}
    [] OTHER -> {}

\* A reservation is rewritten by the PMS upsert or by the updateReservation
\* tool: its status advances, or (before check-in) its dates move.
ChangeReservation(r) ==
  /\ NoInvocation
  /\ \E v \in ReservationValues :
       /\ v.roomNumber = reservations[r].roomNumber
       /\ \/ /\ v.checkInDate = reservations[r].checkInDate
             /\ v.checkOutDate = reservations[r].checkOutDate
             /\ v.status \in NextStatuses(reservations[r].status)
          \/ /\ v.status = reservations[r].status
             /\ v.status = "CONFIRMED"
             /\ v.checkInDate > reservations[r].checkInDate
       /\ reservations' = [reservations EXCEPT ![r] = v]
  /\ last' = NoLast
  /\ UNCHANGED <<now, ticks, proactiveCalls, wakeUpRequests, schemaMaxAttempts,
                 dateFnsTruncates, calls, sched, http, env, guests, pms, sync, toolWrites, disp, wake, gateway>>

\* The clock advances between invocations; with quiet = FALSE also while a
\* dispatch invocation is in flight. The caller has consumed the values that
\* finished invocations returned.
Tick(step, max, quiet) ==
  /\ ticks < max
  /\ quiet => NoInvocation
  /\ now' = now + step
  /\ ticks' = ticks + 1
  /\ last' = NoLast
  /\ disp' = [d \in DispIds |-> IF disp[d].pc = "idle" THEN IdleDisp ELSE disp[d]]
  /\ UNCHANGED <<reservations, proactiveCalls, wakeUpRequests, schemaMaxAttempts,
                 dateFnsTruncates, calls, sched, http, env, guests, pms, sync, toolWrites, wake, gateway>>

\* ------------------------------------------------ scheduling specification
ScheduleStart == 4 * Day + 7 * Hour
ScheduleTicks == {15 * Hour}

InitSchedule ==
  /\ now = ScheduleStart
  /\ ticks = 0
  /\ reservations \in [ResIds -> ReservationValues]
  /\ \A r \in ResIds : /\ reservations[r].roomNumber = "101"
                       /\ reservations[r].status = "CONFIRMED"
  /\ proactiveCalls = <<>>
  /\ wakeUpRequests = <<>>
  /\ schemaMaxAttempts = 3
  /\ dateFnsTruncates = FALSE
  /\ disp = [d \in DispIds |-> IdleDisp]
  /\ wake = IdleWake
  /\ last = NoLast
  /\ gateway = NoGatewayCalls
  /\ env = Configured
  /\ guests = <<>>
  /\ pms = NoPMS
  /\ sync = IdleSync
  /\ toolWrites = <<>>
  /\ http = IdleHttp
  /\ sched = NoScheduling
  /\ calls = <<>>

NextSchedule ==
  \/ schedulePreArrivalCalls
  \/ scheduleMidStayCalls
  \/ schedulePreCheckoutCalls
  \/ schedulePostStayCalls
  \/ \E r \in ResIds : ChangeReservation(r)
  \/ \E step \in ScheduleTicks : Tick(step, MaxScheduleTicks, TRUE)

SpecSchedule == InitSchedule /\ [][NextSchedule]_vars

\* ------------------------------------------- pre-arrival specification
\* the pre-arrival scheduler run at 10:00, at 16:00 sharp, a minute later and
\* half an hour before midnight, over reservations that check in today,
\* tomorrow at midnight or in the afternoon, or the day after
PreArrivalClocks == {4 * Day + 10 * Hour, 4 * Day + 16 * Hour, 4 * Day + 16 * Hour + 1,
                     4 * Day + 23 * Hour + 30}
PreArrivalCheckIns == {4 * Day, 5 * Day, 5 * Day + 15 * Hour, 6 * Day}

PreArrivalReservations ==
  {[status |-> s, checkInDate |-> c, checkOutDate |-> 8 * Day, roomNumber |-> "101"] :
     s \in ResStatuses, c \in PreArrivalCheckIns}

\* the jobs reservation 1 has when the scheduler runs: none, its pre-arrival
\* job, or a job of another call-type
EarlierJobs ==
  {<<>>} \cup {<<[reservationId |-> 1, callType |-> type,
                   scheduledTime |-> 4 * Day + 9 * Hour, status |-> "SCHEDULED",
                   attempts |-> 0, maxAttempts |-> 3, actualTime |-> Null,
                   vapiCallId |-> Null, notes |-> Null]>> :
                 type \in {"PRE_ARRIVAL", "MID_STAY"}}

InitPreArrival ==
  /\ now \in PreArrivalClocks
  /\ ticks = 0
  /\ reservations \in [ResIds -> PreArrivalReservations]
  /\ proactiveCalls \in EarlierJobs
  /\ wakeUpRequests = <<>>
  /\ schemaMaxAttempts = 3
  /\ dateFnsTruncates = FALSE
  /\ disp = [d \in DispIds |-> IdleDisp]
  /\ wake = IdleWake
  /\ last = NoLast
  /\ gateway = NoGatewayCalls
  /\ env = Configured
  /\ guests = <<>>
  /\ pms = NoPMS
  /\ sync = IdleSync
  /\ toolWrites = <<>>
  /\ http = IdleHttp
  /\ sched = NoScheduling
  /\ calls = <<>>

NextPreArrival == schedulePreArrivalCalls

SpecPreArrival == InitPreArrival /\ [][NextPreArrival]_vars

\* ---------------------------------------------- mid-stay specification
\* the mid-stay scheduler run in the morning and in the afternoon of day 4,
\* over reservations that checked in three days ago, two days ago, yesterday
\* at midnight or in the afternoon, or today
MidStayClocks == {4 * Day + 10 * Hour, 4 * Day + 15 * Hour}
MidStayCheckIns == {1 * Day, 2 * Day, 3 * Day, 3 * Day + 15 * Hour, 4 * Day}

MidStayReservations ==
  {[status |-> s, checkInDate |-> c, checkOutDate |-> 8 * Day, roomNumber |-> "101"] :
     s \in ResStatuses, c \in MidStayCheckIns}

MidStayEarlierJobs ==
  {<<>>} \cup {<<[reservationId |-> 1, callType |-> type,
                   scheduledTime |-> 3 * Day + 16 * Hour, status |-> "COMPLETED",
                   attempts |-> 1, maxAttempts |-> 3,
                   actualTime |-> Some(3 * Day + 16 * Hour), vapiCallId |-> Some(<<1, 1>>),
                   notes |-> Null]>> :
                 type \in {"PRE_ARRIVAL", "MID_STAY"}}

InitMidStay ==
  /\ now \in MidStayClocks
  /\ ticks = 0
  /\ reservations \in [ResIds -> MidStayReservations]
  /\ proactiveCalls \in MidStayEarlierJobs
  /\ wakeUpRequests = <<>>
  /\ schemaMaxAttempts = 3
  /\ dateFnsTruncates = FALSE
  /\ disp = [d \in DispIds |-> IdleDisp]
  /\ wake = IdleWake
  /\ last = NoLast
  /\ gateway = NoGatewayCalls
  /\ env = Configured
  /\ guests = <<>>
  /\ pms = NoPMS
  /\ sync = IdleSync
  /\ toolWrites = <<>>
  /\ http = IdleHttp
  /\ sched = NoScheduling
  /\ calls = <<>>

NextMidStay == scheduleMidStayCalls

SpecMidStay == InitMidStay /\ [][NextMidStay]_vars

\* ----------------------------------------- schedulers that run side by side
\* schedulePreArrivalCalls as the 'schedule' trigger (s = 1) and the
\* 'pre-arrival' trigger (s = 2) run it: the findMany, then one awaited create
\* per reservation it returned; the other invocation's store calls come
\* between them
preArrivalQuery(s) ==
  /\ sched[s].pc = "idle"
  /\ \E order \in Orders(PreArrivalEligible) :
       sched' = [sched EXCEPT ![s] =
                   IF order = <<>> THEN [IdleSched EXCEPT !.ret = Some(0)]
                   ELSE [IdleSched EXCEPT !.pc = "create", !.list = order]]
  /\ UNCHANGED <<now, ticks, reservations, proactiveCalls, wakeUpRequests,
                 schemaMaxAttempts, dateFnsTruncates, calls, disp, wake, last, gateway,
                 env, guests, pms, sync, toolWrites, http>>

preArrivalCreate(s) ==
  /\ sched[s].pc = "create"
  /\ proactiveCalls' = Append(proactiveCalls,
                              NewCall(Head(sched[s].list), "PRE_ARRIVAL", PreArrivalTime))
  /\ sched' = [sched EXCEPT ![s] =
                 IF Len(sched[s].list) = 1
                 THEN [IdleSched EXCEPT !.ret = Some(sched[s].scheduledCount + 1)]
                 ELSE [@ EXCEPT !.list = Tail(@), !.scheduledCount = @ + 1]]
  /\ UNCHANGED <<now, ticks, reservations, wakeUpRequests, schemaMaxAttempts,
                 dateFnsTruncates, calls, disp, wake, last, gateway, env, guests, pms, sync,
                 toolWrites, http>>

NextScheduleOverlap ==
  \/ \E s \in SchedIds : preArrivalQuery(s)
  \/ \E s \in SchedIds : preArrivalCreate(s)
  \/ \E r \in ResIds : ChangeReservation(r)
  \/ \E step \in ScheduleTicks : Tick(step, MaxScheduleTicks, TRUE)

SpecScheduleOverlap == InitSchedule /\ [][NextScheduleOverlap]_vars

\* --------------------------------------------------------------- dispatch
\* (variant: the per-job maxAttempts as the ceiling of the query)
DueByMaxAttempts(filter, t) ==
  {i \in CallIds :
     /\ proactiveCalls[i].status = "SCHEDULED"
     /\ proactiveCalls[i].scheduledTime <= t
     /\ proactiveCalls[i].attempts < proactiveCalls[i].maxAttempts
     /\ (filter = Null \/ proactiveCalls[i].callType = filter[1])}

\* (variant: attempts: { lt: 1 })
DueUntried(filter, t) ==
  {i \in CallIds :
     /\ proactiveCalls[i].status = "SCHEDULED"
     /\ proactiveCalls[i].scheduledTime <= t
     /\ proactiveCalls[i].attempts < 1
     /\ (filter = Null \/ proactiveCalls[i].callType = filter[1])}

\* where: status SCHEDULED, scheduledTime <= now, attempts < 3, optional callType
Due(filter, t) ==
  {i \in CallIds :
     /\ proactiveCalls[i].status = "SCHEDULED"
     /\ proactiveCalls[i].scheduledTime <= t
     /\ proactiveCalls[i].attempts < AttemptCeiling
     /\ (filter = Null \/ proactiveCalls[i].callType = filter[1])}

\* (variant: orderBy scheduledTime desc)
RECURSIVE TakeNewestFirst(_, _)
TakeNewestFirst(S, k) ==
  IF S = {} \/ k = 0 THEN {<<>>}
  ELSE LET first == {x \in S : \A y \in S :
                        proactiveCalls[x].scheduledTime >= proactiveCalls[y].scheduledTime}
       IN UNION {{<<x>> \o rest : rest \in TakeNewestFirst(S \ {x}, k - 1)} : x \in first}

\* orderBy scheduledTime asc, take k; rows of equal scheduledTime in any order
RECURSIVE TakeSorted(_, _)
TakeSorted(S, k) ==
  IF S = {} \/ k = 0 THEN {<<>>}
  ELSE LET first == {x \in S : \A y \in S :
                        proactiveCalls[x].scheduledTime <= proactiveCalls[y].scheduledTime}
       IN UNION {{<<x>> \o rest : rest \in TakeSorted(S \ {x}, k - 1)} : x \in first}

\* the row as findMany returned it
Snapshot(i) == [id |-> i, attempts |-> proactiveCalls[i].attempts,
                maxAttempts |-> proactiveCalls[i].maxAttempts]

Filters == {Null} \cup {Some(t) : t \in CallTypes}

\* processScheduledCalls, the due-job query
processStart(d, exclusive, filters) ==
  /\ disp[d].pc = "idle"
  /\ exclusive => NoInvocation
  /\ \E filter \in filters :
       \E batch \in TakeSorted(Due(filter, now), BatchSize) :
         disp' = [disp EXCEPT ![d] =
                    IF batch = <<>>
                    THEN [IdleDisp EXCEPT !.ret = Some(0)]
                    ELSE [IdleDisp EXCEPT !.pc = "mark", !.now = now, !.filter = filter,
                            !.batch = [k \in 1..Len(batch) |-> Snapshot(batch[k])]]]
  /\ UNCHANGED <<now, ticks, reservations, proactiveCalls, wakeUpRequests,
                 schemaMaxAttempts, dateFnsTruncates, calls, sched, http, env, guests, pms, sync, toolWrites, wake, last, gateway>>

\* (variant: no write before the gateway is invoked)
MarkInProgressDeferred(row, t) == row

\* data of the first update: IN_PROGRESS, attempts incremented in the store,
\* actualTime = now
MarkInProgress(row, t) ==
  [row EXCEPT !.status = "IN_PROGRESS", !.attempts = @ + 1, !.actualTime = Some(t)]

processMark(d) ==
  /\ disp[d].pc = "mark"
  /\ LET call == disp[d].batch[disp[d].i]
     IN proactiveCalls' = [proactiveCalls EXCEPT ![call.id] =
                             MarkInProgress(@, disp[d].now)]
  /\ disp' = [disp EXCEPT ![d].pc = "call"]
  /\ UNCHANGED <<now, ticks, reservations, wakeUpRequests, schemaMaxAttempts,
                 dateFnsTruncates, calls, sched, http, env, guests, pms, sync, toolWrites, wake, last, gateway>>

GatewayErrors == {"line busy"}

\* the characters of the call-type names and of the keys of
\* PROACTIVE_CALL_CONFIGS
CallTypeName(type) ==
  CASE type = "PRE_ARRIVAL" -> <<"P", "R", "E", "_", "A", "R", "R", "I", "V", "A", "L">>
    [] type = "MID_STAY" -> <<"M", "I", "D", "_", "S", "T", "A", "Y">>
    [] type = "PRE_CHECKOUT" -> <<"P", "R", "E", "_", "C", "H", "E", "C", "K", "O", "U", "T">>
    [] type = "POST_STAY" -> <<"P", "O", "S", "T", "_", "S", "T", "A", "Y">>

ConfigEntries == {"preArrival", "wakeUp", "midStay", "preCheckout", "postStay"}

ConfigKey(entry) ==
  CASE entry = "preArrival" -> <<"p", "r", "e", "A", "r", "r", "i", "v", "a", "l">>
    [] entry = "wakeUp" -> <<"w", "a", "k", "e", "U", "p">>
    [] entry = "midStay" -> <<"m", "i", "d", "S", "t", "a", "y">>
    [] entry = "preCheckout" -> <<"p", "r", "e", "C", "h", "e", "c", "k", "o", "u", "t">>
    [] entry = "postStay" -> <<"p", "o", "s", "t", "S", "t", "a", "y">>

UpperCase == <<"A", "C", "D", "E", "H", "I", "K", "L", "M", "O", "P", "R", "S", "T", "U",
               "V", "Y">>
LowerCase == <<"a", "c", "d", "e", "h", "i", "k", "l", "m", "o", "p", "r", "s", "t", "u",
               "v", "y">>

\* String.prototype.toLowerCase
toLowerCase(str) ==
  [k \in DOMAIN str |->
     IF \E n \in DOMAIN UpperCase : UpperCase[n] = str[k]
     THEN LowerCase[CHOOSE n \in DOMAIN UpperCase : UpperCase[n] = str[k]]
     ELSE str[k]]

\* str.replace('_', ''): the first underscore is removed
replaceUnderscore(str) ==
  LET found == {k \in DOMAIN str : str[k] = "_"}
      first == CHOOSE k \in found : \A j \in found : k <= j
  IN IF found = {} THEN str
     ELSE [k \in 1..(Len(str) - 1) |-> IF k < first THEN str[k] ELSE str[k + 1]]

\* call.callType.toLowerCase().replace('_', '')
configKeyOf(str) == replaceUnderscore(toLowerCase(str))

\* PROACTIVE_CALL_CONFIGS[key] || PROACTIVE_CALL_CONFIGS.midStay: the entry of
\* the table the call is placed with
ConfigLookup ==
  [type \in CallTypes |->
     LET key == configKeyOf(CallTypeName(type))
         found == {entry \in ConfigEntries : ConfigKey(entry) = key}
     IN IF found = {} THEN "midStay" ELSE CHOOSE entry \in found : TRUE]

\* const config = PROACTIVE_CALL_CONFIGS[...] || ... of the job being placed
ConfigOf(type) == ConfigLookup[type]

\* switch (call.callType): the opening line is the one of the call-type
FirstMessageOf(type) == type

\* the request to the gateway for job i: config.systemPrompt and
\* config.maxDuration of the entry, and the opening line
Placed(g, i) ==
  [g EXCEPT !.placed = Bump(@, i),
            !.assistant = @ \cup {[id |-> i,
                                    config |-> ConfigOf(proactiveCalls[i].callType),
                                    firstMessage |->
                                      FirstMessageOf(proactiveCalls[i].callType)]}]

\* response.data.id: a fresh handle for every call placed
CallHandle(call) == <<call.id, call.attempts + 1>>

\* if (!apiKey || !phoneNumberId)
VapiConfigured == env.VAPI_API_KEY /\ env.VAPI_PHONE_NUMBER_ID

\* makeOutboundCall: without credentials it returns an error and places no
\* call; else the gateway accepts the call and returns a handle, or rejects
\* it with an error message
processCall(d) ==
  /\ disp[d].pc = "call"
  /\ LET call == disp[d].batch[disp[d].i]
     IN IF ~VapiConfigured
        THEN /\ disp' = [disp EXCEPT ![d].pc = "write",
                           ![d].result = Some([success |-> FALSE,
                                               error |-> "VAPI not configured"]),
                           ![d].rejected = @ + 1]
             /\ gateway' = gateway
        ELSE \/ /\ disp' = [disp EXCEPT ![d].pc = "write",
                              ![d].result = Some([success |-> TRUE,
                                                  callId |-> CallHandle(call)]),
                              ![d].accepted = @ + 1]
                /\ gateway' = Placed(gateway, call.id)
             \/ \E e \in GatewayErrors :
                  /\ disp' = [disp EXCEPT ![d].pc = "write",
                                ![d].result = Some([success |-> FALSE, error |-> e]),
                                ![d].rejected = @ + 1]
                  /\ gateway' = [Placed(gateway, call.id) EXCEPT
                                   !.rejected = Bump(@, call.id)]
  /\ UNCHANGED <<now, ticks, reservations, proactiveCalls, wakeUpRequests,
                 schemaMaxAttempts, dateFnsTruncates, calls, sched, http, env, guests, pms, sync, toolWrites, wake, last>>

\* (variant: a retry without delay)
RetryTimeNone(t) == t

\* the retry delay: addHours(now, 1)
RetryTime(t) == addHours(t, 1)

\* (variant: failed only once the attempts exceed maxAttempts)
StatusAfterFailureStrict(call) ==
  LET newAttempts == call.attempts + 1
  IN IF newAttempts > call.maxAttempts THEN "FAILED" ELSE "SCHEDULED"

\* status written after a rejected call
StatusAfterFailure(call) ==
  LET newAttempts == call.attempts + 1
  IN IF newAttempts >= call.maxAttempts THEN "FAILED" ELSE "SCHEDULED"

\* (variant: every job of the batch counted)
CountedAlways(count, result) == count + 1

\* what a dispatch invocation counts: the calls the gateway accepted
CountedAfter(count, result) == IF result.success THEN count + 1 ELSE count

\* (variant: the job closed as soon as the gateway accepts the call)
AfterAcceptedCompleted(row, result) ==
  [row EXCEPT !.vapiCallId = Some(result.callId), !.status = "COMPLETED"]

\* data of the update after an accepted call: the call handle, nothing else
AfterAccepted(row, result) == [row EXCEPT !.vapiCallId = Some(result.callId)]

\* data of the update after a rejected call
AfterRejected(row, call, result, t) ==
  [row EXCEPT !.status = StatusAfterFailure(call), !.notes = Some(result.error),
              !.scheduledTime = RetryTime(t)]

\* the update after the gateway answered, then the next job or the return
processWrite(d) ==
  /\ disp[d].pc = "write"
  /\ LET call == disp[d].batch[disp[d].i]
         result == disp[d].result[1]
         count == CountedAfter(disp[d].processedCount, result)
     IN /\ proactiveCalls' = [proactiveCalls EXCEPT ![call.id] =
             IF result.success THEN AfterAccepted(@, result)
             ELSE AfterRejected(@, call, result, disp[d].now)]
        /\ disp' = [disp EXCEPT ![d] =
             IF disp[d].i = Len(disp[d].batch)
             THEN [IdleDisp EXCEPT !.ret = Some(count), !.accepted = disp[d].accepted,
                                   !.rejected = disp[d].rejected]
             ELSE [@ EXCEPT !.pc = "mark", !.i = @ + 1, !.result = Null,
                            !.processedCount = count]]
  /\ UNCHANGED <<now, ticks, reservations, wakeUpRequests, schemaMaxAttempts,
                 dateFnsTruncates, calls, sched, http, env, guests, pms, sync, toolWrites, wake, last, gateway>>

processScheduledCalls(d, exclusive, filters) ==
  \/ processStart(d, exclusive, filters)
  \/ processMark(d)
  \/ processCall(d)
  \/ processWrite(d)

\* ------------------------------------------------- dispatch specifications
DispatchStart == 16 * Hour + 5
DispatchTicks == {Hour}
JobTimes == {16 * Hour, 17 * Hour}

\* jobs as the schedulers left them: one per (reservation, call-type), status
\* SCHEDULED, no attempt made; maxAttempts as configured for the job
InitialJobs ==
  {jobs \in [1..NumJobs -> [reservationId : ResIds, callType : {"PRE_ARRIVAL", "MID_STAY"},
                            scheduledTime : JobTimes, status : {"SCHEDULED"},
                            attempts : {0}, maxAttempts : MaxAttemptsValues,
                            actualTime : {Null}, vapiCallId : {Null}, notes : {Null}]] :
     \A k \in 1..NumJobs :
       /\ jobs[k].reservationId = ((k - 1) \div 2) + 1
       /\ jobs[k].callType = IF k % 2 = 1 THEN "PRE_ARRIVAL" ELSE "MID_STAY"}

InitDispatchWith(e) ==
  /\ now = DispatchStart
  /\ ticks = 0
  /\ reservations = [r \in ResIds |->
       [status |-> "CHECKED_IN", checkInDate |-> 0 - Day, checkOutDate |-> Day,
        roomNumber |-> "101"]]
  /\ proactiveCalls \in InitialJobs
  /\ wakeUpRequests = <<>>
  /\ schemaMaxAttempts = 3
  /\ dateFnsTruncates = FALSE
  /\ disp = [d \in DispIds |-> IdleDisp]
  /\ wake = IdleWake
  /\ last = NoLast
  /\ gateway = NoGatewayCalls
  /\ env = e
  /\ guests = <<>>
  /\ pms = NoPMS
  /\ sync = IdleSync
  /\ toolWrites = <<>>
  /\ http = IdleHttp
  /\ sched = NoScheduling
  /\ calls = <<>>

InitDispatch == InitDispatchWith(Configured)

\* dispatch sweeps that run one at a time
Next ==
  \/ processScheduledCalls(1, TRUE, Filters)
  \/ \E step \in DispatchTicks : Tick(step, MaxTicks, TRUE)

Spec == InitDispatch /\ [][Next]_vars

\* dispatch invocations that overlap: the 'process' trigger runs
\* processScheduledCalls() while a per-milestone trigger runs
\* processScheduledCalls(callType)
InitOverlap ==
  /\ InitDispatch
  /\ \A k \in 1..NumJobs : /\ proactiveCalls[k].scheduledTime = 16 * Hour
                           /\ proactiveCalls[k].maxAttempts = 3

NextOverlap ==
  \/ processScheduledCalls(1, FALSE, {Null})
  \/ processScheduledCalls(2, FALSE, {Some("PRE_ARRIVAL")})
  \/ Tick(Hour, MaxOverlapTicks, FALSE)

SpecOverlap == InitOverlap /\ [][NextOverlap]_vars

\* maxDuration: the platform ends an invocation that is still running; seen
\* from the store, the invocation stops between two awaits. A stop while the
\* gateway request is out may come before or after the gateway placed the call.
processStop(d) ==
  /\ disp[d].pc # "idle"
  /\ disp' = [disp EXCEPT ![d] = IdleDisp]
  /\ IF disp[d].pc = "call" /\ VapiConfigured
     THEN \E placed \in BOOLEAN :
            gateway' = IF placed
                       THEN Placed(gateway, disp[d].batch[disp[d].i].id)
                       ELSE gateway
     ELSE gateway' = gateway
  /\ UNCHANGED <<now, ticks, reservations, proactiveCalls, wakeUpRequests,
                 schemaMaxAttempts, dateFnsTruncates, calls, sched, http, env, guests, pms, sync,
                 toolWrites, wake, last>>

\* dispatch sweeps that run one at a time and may be stopped
NextStop ==
  \/ processScheduledCalls(1, TRUE, {Null})
  \/ processStop(1)
  \/ Tick(Hour, MaxStopTicks, TRUE)

SpecStop == InitOverlap /\ [][NextStop]_vars

\* a store that holds more due jobs than one batch takes: job k of
\* reservation (k - 1) \div 4 + 1, the call-types in turn, due since k minutes
BatchJobs == BatchSize + Surplus
BatchTypes == <<"PRE_ARRIVAL", "MID_STAY", "PRE_CHECKOUT", "POST_STAY">>

BatchJob(k) ==
  [reservationId |-> ((k - 1) \div 4) + 1, callType |-> BatchTypes[((k - 1) % 4) + 1],
   scheduledTime |-> DispatchStart - k, status |-> "SCHEDULED", attempts |-> 0,
   maxAttempts |-> 4, actualTime |-> Null, vapiCallId |-> Null, notes |-> Null]

\* one job of the store differs: not yet due, closed by an earlier call, at
\* the attempt ceiling of the query after three rejected calls, or due since
\* the same minute as its neighbour
OddKinds == {"none", "later", "completed", "spent", "tie"}

OddJob(k, kind) ==
  CASE kind = "later" -> [BatchJob(k) EXCEPT !.scheduledTime = DispatchStart + 1]
    [] kind = "completed" -> [BatchJob(k) EXCEPT !.status = "COMPLETED",
                                !.attempts = 1, !.actualTime = Some(DispatchStart - Hour),
                                !.vapiCallId = Some(<<k, 1>>)]
    [] kind = "spent" -> [BatchJob(k) EXCEPT !.attempts = 3,
                            !.actualTime = Some(DispatchStart - Hour - k),
                            !.notes = Some("line busy")]
    [] kind = "tie" -> [BatchJob(k) EXCEPT !.scheduledTime =
                          IF k = 1 THEN DispatchStart - 2 ELSE DispatchStart - k + 1]
    [] OTHER -> BatchJob(k)

OddJobs == {1, Surplus + 1, BatchJobs}

InitBatch ==
  /\ now = DispatchStart
  /\ ticks = 0
  /\ reservations = [r \in 1..(((BatchJobs - 1) \div 4) + 1) |->
       [status |-> "CHECKED_IN", checkInDate |-> 0 - Day, checkOutDate |-> Day,
        roomNumber |-> "101"]]
  /\ \E j \in OddJobs : \E kind \in OddKinds :
       proactiveCalls = [k \in 1..BatchJobs |-> IF k = j THEN OddJob(k, kind)
                                                ELSE BatchJob(k)]
  /\ wakeUpRequests = <<>>
  /\ schemaMaxAttempts = 4
  /\ dateFnsTruncates = FALSE
  /\ disp = [d \in DispIds |-> IdleDisp]
  /\ wake = IdleWake
  /\ last = NoLast
  /\ gateway = NoGatewayCalls
  /\ env = Configured
  /\ guests = <<>>
  /\ pms = NoPMS
  /\ sync = IdleSync
  /\ toolWrites = <<>>
  /\ http = IdleHttp
  /\ sched = NoScheduling
  /\ calls = <<>>

\* sweeps over the whole store and sweeps of one call-type, one at a time
NextBatch == processScheduledCalls(1, TRUE, {Null, Some("MID_STAY")})

SpecBatch == InitBatch /\ [][NextBatch]_vars

\* repeated sweeps over a store of more due jobs than one batch, with a
\* gateway that rejects every call for one job in four (the guest's line
\* stays busy) and accepts the calls for the others
Failing == {k \in 1..BatchJobs : k % 4 = 0}

LiveCall(d) ==
  /\ processCall(d)
  /\ disp'[d].result[1].success <=> (disp[d].batch[disp[d].i].id \notin Failing)

LiveSweep ==
  \/ processStart(1, TRUE, {Null})
  \/ processMark(1)
  \/ LiveCall(1)
  \/ processWrite(1)

NextLive ==
  \/ LiveSweep
  \/ Tick(Hour, MaxLiveTicks, TRUE)

\* the periodic invoker keeps requesting sweeps and every await of a sweep
\* returns
SpecLive == InitBatch /\ [][NextLive]_vars /\ WF_vars(LiveSweep)

\* prisma.proactiveCall.update rejects (the store is unreachable, the row is
\* gone): nothing in processScheduledCalls catches it, the write is not made,
\* the loop is left and the promise of the invocation rejects with the error
StoreErrors == {"store write failed"}

processThrow(d) ==
  /\ disp[d].pc \in {"mark", "write"}
  /\ \E e \in StoreErrors :
       disp' = [disp EXCEPT ![d] =
                  [IdleDisp EXCEPT !.result = Some([success |-> FALSE, error |-> e])]]
  /\ UNCHANGED <<now, ticks, reservations, proactiveCalls, wakeUpRequests,
                 schemaMaxAttempts, dateFnsTruncates, calls, sched, http, env, guests, pms, sync,
                 toolWrites, wake, last, gateway>>

\* dispatch sweeps, one at a time, whose store writes may fail
NextThrow ==
  \/ processScheduledCalls(1, TRUE, {Null})
  \/ processThrow(1)
  \/ Tick(Hour, MaxStopTicks, TRUE)

SpecThrow == InitOverlap /\ [][NextThrow]_vars

\* ------------------------------------------------------ gateway webhooks
\* the statuses the gateway reports, and status?.toUpperCase().replace(/-/g, '_')
VapiStatuses == {"ringing", "in-progress", "ended"}

CallStatusOf(status) ==
  CASE status = "ringing" -> "RINGING"
    [] status = "in-progress" -> "IN_PROGRESS"
    [] status = "ended" -> "ENDED"

\* the handles of the calls the gateway accepted for dispatch
AcceptedHandles ==
  {proactiveCalls[i].vapiCallId[1] : i \in {j \in CallIds : proactiveCalls[j].vapiCallId # Null}}

\* handleStatusUpdate: prisma.call.upsert keyed by the handle; the update
\* branch writes the status, the create branch a new Call row
handleStatusUpdate(handle, status) ==
  /\ calls' = IF handle \in DOMAIN calls
              THEN [calls EXCEPT ![handle].status = CallStatusOf(status)]
              ELSE (handle :> [status |-> CallStatusOf(status), direction |-> "OUTBOUND",
                               endTime |-> Null]) @@ calls
  /\ UNCHANGED <<now, ticks, reservations, proactiveCalls, wakeUpRequests,
                 schemaMaxAttempts, dateFnsTruncates, sched, disp, wake, last, gateway,
                 env, guests, pms, sync, toolWrites, http>>

\* handleEndOfCallReport: prisma.call.upsert keyed by the handle, status ENDED
handleEndOfCallReport(handle) ==
  /\ calls' = (handle :> [status |-> "ENDED", direction |-> "OUTBOUND",
                          endTime |-> Some(now)]) @@ calls
  /\ UNCHANGED <<now, ticks, reservations, proactiveCalls, wakeUpRequests,
                 schemaMaxAttempts, dateFnsTruncates, sched, disp, wake, last, gateway,
                 env, guests, pms, sync, toolWrites, http>>

\* dispatch sweeps and the webhooks of the calls they placed; the report of a
\* call is its last event
NextWebhook ==
  \/ processScheduledCalls(1, TRUE, {Null})
  \/ \E handle \in AcceptedHandles : \E status \in VapiStatuses :
       /\ handle \in DOMAIN calls => calls[handle].endTime = Null
       /\ handleStatusUpdate(handle, status)
  \/ \E handle \in AcceptedHandles :
       /\ handle \in DOMAIN calls => calls[handle].endTime = Null
       /\ handleEndOfCallReport(handle)

SpecWebhook == InitOverlap /\ [][NextWebhook]_vars

\* dispatch sweeps over the jobs of reservations that the PMS upsert rewrites
\* between the sweeps
InitCancel ==
  /\ now = 16 * Hour + 5
  /\ ticks = 0
  /\ reservations = [r \in ResIds |->
       [status |-> "CONFIRMED", checkInDate |-> 2 * Day, checkOutDate |-> 4 * Day,
        roomNumber |-> "101"]]
  /\ proactiveCalls \in InitialJobs
  /\ \A k \in 1..NumJobs : /\ proactiveCalls[k].scheduledTime = 16 * Hour
                           /\ proactiveCalls[k].maxAttempts = 3
  /\ wakeUpRequests = <<>>
  /\ schemaMaxAttempts = 3
  /\ dateFnsTruncates = FALSE
  /\ disp = [d \in DispIds |-> IdleDisp]
  /\ wake = IdleWake
  /\ last = NoLast
  /\ gateway = NoGatewayCalls
  /\ env = Configured
  /\ guests = <<>>
  /\ pms = NoPMS
  /\ sync = IdleSync
  /\ toolWrites = <<>>
  /\ http = IdleHttp
  /\ sched = NoScheduling
  /\ calls = <<>>

NextCancel ==
  \/ processScheduledCalls(1, TRUE, {Null})
  \/ \E r \in ResIds : ChangeReservation(r)

SpecCancel == InitCancel /\ [][NextCancel]_vars

\* dispatch sweeps of a deployment without gateway credentials
Unconfigured == {[Configured EXCEPT !.VAPI_API_KEY = FALSE],
                 [Configured EXCEPT !.VAPI_PHONE_NUMBER_ID = FALSE]}

InitUnconfigured == \E e \in Unconfigured : InitDispatchWith(e)

SpecUnconfigured == InitUnconfigured /\ [][Next]_vars

\* ------------------------------------------------------- wake-up dispatch
\* subDays(date, num/den) for a fraction of a day: date-fns 2 truncates the
\* amount toward zero before adding days; later versions hand
\* getDate() - num/den to Date.setDate, which truncates the day of the month
subDaysFraction(t, num, den) ==
  IF dateFnsTruncates THEN subDays(t, num \div den)
  ELSE subDays(t, (num + den - 1) \div den)

\* subDays(now, 5 / (24 * 60))
fiveMinutesAgo(t) == subDaysFraction(t, 5, 24 * 60)

WakeIds == DOMAIN wakeUpRequests

\* where: status PENDING, requestedTime in [fiveMinutesAgo, now]
WakeDue(t) ==
  {i \in WakeIds :
     /\ wakeUpRequests[i].status = "PENDING"
     /\ wakeUpRequests[i].requestedTime >= fiveMinutesAgo(t)
     /\ wakeUpRequests[i].requestedTime <= t}

\* take k of the rows, in any order (the query has no orderBy)
RECURSIVE TakeAny(_, _)
TakeAny(S, k) ==
  IF S = {} \/ k = 0 THEN {<<>>}
  ELSE UNION {{<<x>> \o rest : rest \in TakeAny(S \ {x}, k - 1)} : x \in S}

WakeSnapshot(i) == [id |-> i, roomNumber |-> wakeUpRequests[i].roomNumber,
                    attempts |-> wakeUpRequests[i].attempts]

\* (variant: the lookup by room number alone)
ReservationsOfRoom(room) == {r \in DOMAIN reservations : reservations[r].roomNumber = room}

\* findFirst: roomNumber, status CHECKED_IN
CheckedInReservations(room) ==
  {r \in DOMAIN reservations : /\ reservations[r].roomNumber = room
                  /\ reservations[r].status = "CHECKED_IN"}

\* processWakeUpCalls, the pending-request query; sweeps start at distinct times
wakeStart ==
  /\ NoInvocation
  /\ now > wake.now
  /\ \E batch \in TakeAny(WakeDue(now), BatchSize) :
       wake' = IF batch = <<>>
               THEN [IdleWake EXCEPT !.now = now, !.ret = Some(0)]
               ELSE [IdleWake EXCEPT !.pc = "lookup", !.now = now,
                       !.batch = [k \in 1..Len(batch) |-> WakeSnapshot(batch[k])]]
  /\ UNCHANGED <<now, ticks, reservations, proactiveCalls, wakeUpRequests,
                 schemaMaxAttempts, dateFnsTruncates, calls, sched, http, env, guests, pms, sync, toolWrites, disp, last, gateway>>

WakeFinished(count) == [IdleWake EXCEPT !.now = wake.now, !.ret = Some(count)]

\* the reservation lookup, then FAILED when there is none, else the attempt
\* is counted
wakeLookup ==
  /\ wake.pc = "lookup"
  /\ LET request == wake.batch[wake.i]
         found == CheckedInReservations(request.roomNumber)
     IN IF found = {}
        THEN /\ wakeUpRequests' = [wakeUpRequests EXCEPT ![request.id].status = "FAILED"]
             /\ wake' = IF wake.i = Len(wake.batch)
                        THEN WakeFinished(wake.processedCount)
                        ELSE [wake EXCEPT !.i = @ + 1]
        ELSE /\ wakeUpRequests' = [wakeUpRequests EXCEPT ![request.id].attempts = @ + 1]
             /\ \E r \in found :
                  wake' = [wake EXCEPT !.pc = "call", !.reservation = Some(r)]
  /\ UNCHANGED <<now, ticks, reservations, proactiveCalls, schemaMaxAttempts,
                 dateFnsTruncates, calls, sched, http, env, guests, pms, sync, toolWrites, disp, last, gateway>>

\* makeOutboundCall for the wake-up call
wakeCall ==
  /\ wake.pc = "call"
  /\ LET request == wake.batch[wake.i]
     IN /\ gateway' = [gateway EXCEPT !.wakePlaced = Bump(@, request.id)]
        /\ \/ wake' = [wake EXCEPT !.pc = "write",
                         !.result = Some([success |-> TRUE])]
           \/ \E e \in GatewayErrors :
                wake' = [wake EXCEPT !.pc = "write",
                           !.result = Some([success |-> FALSE, error |-> e])]
  /\ UNCHANGED <<now, ticks, reservations, proactiveCalls, wakeUpRequests,
                 schemaMaxAttempts, dateFnsTruncates, calls, sched, http, env, guests, pms, sync, toolWrites, disp, last>>

\* else if (request.attempts >= 2): the row as the query returned it
WakeExhausted(request) == request.attempts >= WakeFailAt

\* the update after the gateway answered, then the next request or the return
wakeWrite ==
  /\ wake.pc = "write"
  /\ LET request == wake.batch[wake.i]
         result == wake.result[1]
         count == IF result.success THEN wake.processedCount + 1
                  ELSE wake.processedCount
     IN /\ wakeUpRequests' = [wakeUpRequests EXCEPT ![request.id] =
             IF result.success
             THEN [@ EXCEPT !.status = "COMPLETED", !.completedAt = Some(wake.now)]
             ELSE IF WakeExhausted(request) THEN [@ EXCEPT !.status = "FAILED"]
             ELSE @]
        /\ wake' = IF wake.i = Len(wake.batch)
                   THEN WakeFinished(count)
                   ELSE [wake EXCEPT !.pc = "lookup", !.i = @ + 1, !.result = Null,
                                     !.reservation = Null, !.processedCount = count]
  /\ UNCHANGED <<now, ticks, reservations, proactiveCalls, schemaMaxAttempts,
                 dateFnsTruncates, calls, sched, http, env, guests, pms, sync, toolWrites, disp, last, gateway>>

processWakeUpCalls ==
  \/ wakeStart
  \/ wakeLookup
  \/ wakeCall
  \/ wakeWrite

\* ------------------------------------------------- wake-up specification
WakeStartTime == 5 * Day + 7 * Hour
WakeTicks == {1}
\* requested times: one more than five minutes before the first sweep, one a
\* minute after it
WakeTimes == {WakeStartTime - 6, WakeStartTime + 1}
RoomOf(r) == IF r % 2 = 1 THEN "101" ELSE "102"

\* requests as the guest's tool call left them: pending, no attempt made
InitialRequests ==
  [1..NumWake -> [roomNumber : Rooms, requestedTime : WakeTimes, status : {"PENDING"},
                  attempts : {0}, completedAt : {Null}]]

InitWake ==
  /\ now = WakeStartTime
  /\ ticks = 0
  /\ reservations \in [ResIds -> ReservationValues]
  /\ \A r \in ResIds : /\ reservations[r].roomNumber = RoomOf(r)
                       /\ reservations[r].status \in {"CONFIRMED", "CHECKED_IN"}
                       /\ reservations[r].checkInDate = 5 * Day
  /\ proactiveCalls = <<>>
  /\ wakeUpRequests \in InitialRequests
  /\ schemaMaxAttempts = 3
  /\ dateFnsTruncates \in BOOLEAN
  /\ disp = [d \in DispIds |-> IdleDisp]
  /\ wake = IdleWake
  /\ last = NoLast
  /\ gateway = NoGatewayCalls
  /\ env = Configured
  /\ guests = <<>>
  /\ pms = NoPMS
  /\ sync = IdleSync
  /\ toolWrites = <<>>
  /\ http = IdleHttp
  /\ sched = NoScheduling
  /\ calls = <<>>

NextWake ==
  \/ processWakeUpCalls
  \/ \E r \in ResIds : ChangeReservation(r)
  \/ \E step \in WakeTicks : Tick(step, MaxWakeTicks, TRUE)

SpecWake == InitWake /\ [][NextWake]_vars

\* ------------------------------------------------------ PMS reconciliation
\* the upstream status tokens
PmsStatuses == {"confirmed", "checked-in", "checked-out", "cancelled"}

\* pmsRes.status.toUpperCase().replace('-', '_')
StatusFromPMS(s) ==
  CASE s = "confirmed" -> "CONFIRMED"
    [] s = "checked-in" -> "CHECKED_IN"
    [] s = "checked-out" -> "CHECKED_OUT"
    [] s = "cancelled" -> "CANCELLED"

\* parseISO of an upstream date (a day number): local midnight of that day
parseISO(day) == day * Day

\* guest.findUnique({ where: { externalId } })
GuestByExternalId(id) == {g \in DOMAIN guests : guests[g].externalId = Some(id)}

\* Guest.phone is a unique column (the seed upserts a guest by phone)
PhoneTaken(phone) == \E g \in DOMAIN guests : guests[g].phone = phone

\* the row reservation.upsert({ where: { externalId } }) finds
ReservationByExternalId(id) ==
  {r \in DOMAIN reservations : reservations[r].externalId = Some(id)}

\* (variant: a list failure reported as an empty, clean sync)
ListFailureSilent == [synced |-> 0, errors |-> 0]

\* the outer catch: return { synced: 0, errors: 1 }
ListFailureResult == [synced |-> 0, errors |-> 1]

\* syncFromPMS up to the reservation-list response
syncStart ==
  /\ sync.pc = "idle"
  /\ NoInvocation
  /\ IF ~(env.PMS_API_URL /\ env.PMS_API_KEY)
     THEN sync' = [IdleSync EXCEPT !.ret = Some([synced |-> 0, errors |-> 0])]
     ELSE \/ sync' = [IdleSync EXCEPT !.ret = Some(ListFailureResult),
                                      !.outcome = Some("list request failed")]
          \/ sync' = IF pms.reservations = <<>>
                     THEN [IdleSync EXCEPT !.ret = Some([synced |-> 0, errors |-> 0])]
                     ELSE [IdleSync EXCEPT !.pc = "item", !.list = pms.reservations]
  /\ UNCHANGED <<now, ticks, reservations, proactiveCalls, wakeUpRequests,
                 schemaMaxAttempts, dateFnsTruncates, calls, sched, http, disp, wake, last, gateway,
                 env, guests, pms, toolWrites>>

\* the update branch of the upsert; a field the upstream row lacks is left alone
UpsertUpdate(row, pmsRes) ==
  [row EXCEPT !.roomNumber = pmsRes.roomNumber,
              !.checkInDate = parseISO(pmsRes.checkInDate),
              !.checkOutDate = parseISO(pmsRes.checkOutDate),
              !.status = StatusFromPMS(pmsRes.status),
              !.numberOfGuests = pmsRes.numberOfGuests,
              !.specialRequests = IF pmsRes.specialRequests = Null THEN @
                                  ELSE pmsRes.specialRequests]

\* the create branch of the upsert
UpsertCreate(pmsRes, guestId) ==
  [externalId |-> Some(pmsRes.id), guestId |-> guestId,
   roomNumber |-> pmsRes.roomNumber,
   checkInDate |-> parseISO(pmsRes.checkInDate),
   checkOutDate |-> parseISO(pmsRes.checkOutDate),
   status |-> StatusFromPMS(pmsRes.status),
   numberOfGuests |-> pmsRes.numberOfGuests,
   specialRequests |-> pmsRes.specialRequests]

\* (variant: an item's error ends the loop, as if rethrown to the outer catch)
SyncAfterErrorAbort(errors, failed, cause) ==
  [IdleSync EXCEPT !.ret = Some(ListFailureResult), !.outcome = Some(cause)]

\* the inner catch: errors++, then the next reservation or the return
SyncAfterError(errors, failed, cause) ==
  IF sync.i = Len(sync.list)
  THEN [IdleSync EXCEPT !.ret = Some([synced |-> sync.synced, errors |-> errors]),
                        !.outcome = Some(cause)]
  ELSE [sync EXCEPT !.i = @ + 1, !.errors = errors, !.failed = failed,
                    !.outcome = Some(cause)]

\* synced++, then the next reservation or the return
SyncAfterSuccess(synced) ==
  IF sync.i = Len(sync.list)
  THEN [IdleSync EXCEPT !.ret = Some([synced |-> synced, errors |-> sync.errors]),
                        !.outcome = Some("synced")]
  ELSE [sync EXCEPT !.i = @ + 1, !.synced = synced, !.outcome = Some("synced")]

\* one pass of the loop body: guest request, guest lookup or create,
\* reservation upsert
syncItem ==
  /\ sync.pc = "item"
  /\ LET pmsRes == sync.list[sync.i]
         failure(cause) ==
           /\ sync' = SyncAfterError(sync.errors + 1, sync.failed \cup {sync.i}, cause)
           /\ UNCHANGED <<guests, reservations>>
     IN \/ failure("guest request failed")
        \/ LET pmsGuest == pms.guests[pmsRes.guestId]
               found == GuestByExternalId(pmsGuest.id)
           IN IF found = {} /\ PhoneTaken(pmsGuest.phone)
              THEN failure("unique constraint on Guest.phone")
              ELSE LET guestId == IF found = {} THEN Len(guests) + 1
                                  ELSE CHOOSE g \in found : TRUE
                       matched == ReservationByExternalId(pmsRes.id)
                   IN /\ guests' = IF found = {}
                                   THEN Append(guests,
                                          [externalId |-> Some(pmsGuest.id),
                                           phone |-> pmsGuest.phone])
                                   ELSE guests
                      /\ reservations' =
                           IF matched = {}
                           THEN Append(reservations, UpsertCreate(pmsRes, guestId))
                           ELSE [r \in DOMAIN reservations |->
                                   IF r \in matched
                                   THEN UpsertUpdate(reservations[r], pmsRes)
                                   ELSE reservations[r]]
                      /\ sync' = SyncAfterSuccess(sync.synced + 1)
  /\ UNCHANGED <<now, ticks, proactiveCalls, wakeUpRequests, schemaMaxAttempts,
                 dateFnsTruncates, calls, sched, http, disp, wake, last, gateway, env, pms, toolWrites>>

syncFromPMS ==
  \/ syncStart
  \/ syncItem

\* the updateReservation tool call: only the fields the caller passed (and
\* that are truthy) are written
UpdateColumns == {"checkInDate", "checkOutDate", "numberOfGuests", "specialRequests"}
NoUpdates == [c \in UpdateColumns |-> Null]
Updates ==
  {[NoUpdates EXCEPT !.numberOfGuests = Some(3)],
   [NoUpdates EXCEPT !.specialRequests = Some("late arrival")],
   [NoUpdates EXCEPT !.checkInDate = Some(6), !.checkOutDate = Some(8)]}

\* new Date(updates.checkInDate): midnight of the day named
NewDate(day) == day * Day

UpdateData(updates, c) ==
  IF c \in {"checkInDate", "checkOutDate"} THEN NewDate(updates[c][1])
  ELSE IF c = "specialRequests" THEN updates[c]
  ELSE updates[c][1]

handleUpdateReservation(r, updates) ==
  /\ r \in DOMAIN reservations
  /\ LET written == {c \in UpdateColumns : updates[c] # Null}
     IN /\ reservations' = [reservations EXCEPT ![r] =
             [c \in DOMAIN @ |-> IF c \in written THEN UpdateData(updates, c) ELSE @[c]]]
        /\ toolWrites' = [k \in {<<r, c>> : c \in written} |->
                            UpdateData(updates, k[2])] @@ toolWrites
  /\ UNCHANGED <<now, ticks, proactiveCalls, wakeUpRequests, schemaMaxAttempts,
                 dateFnsTruncates, calls, sched, http, disp, wake, last, gateway, env, guests, pms, sync>>

\* the upstream system moves a reservation along the guest journey
NextPmsStatuses(s) ==
  CASE s = "confirmed" -> {"checked-in"}
    [] OTHER -> {}

PmsChange(k) ==
  /\ k \in DOMAIN pms.reservations
  /\ \E s \in NextPmsStatuses(pms.reservations[k].status) :
       pms' = [pms EXCEPT !.reservations[k].status = s]
  /\ UNCHANGED <<now, ticks, reservations, proactiveCalls, wakeUpRequests,
                 schemaMaxAttempts, dateFnsTruncates, calls, sched, http, disp, wake, last, gateway,
                 env, guests, sync, toolWrites>>

\* --------------------------------------------------- sync specification
SamplePhone == "+15551234567"
OtherPhone == "+15557654321"

\* the upstream guests; the first one is the person the local sample guest is
UpstreamGuests ==
  [g \in {1, 2} |-> [id |-> g, phone |-> IF g = 1 THEN SamplePhone ELSE OtherPhone]]

\* upstream reservation k: guests alternate, every second reservation carries
\* special requests upstream
UpstreamReservations ==
  [k \in 1..NumUpstream |->
     [id |-> k, guestId |-> IF k % 2 = 1 THEN 1 ELSE 2, roomNumber |-> "101",
      checkInDate |-> 5, checkOutDate |-> 7, status |-> "confirmed",
      numberOfGuests |-> 2,
      specialRequests |-> IF k % 2 = 1 THEN Null ELSE Some("feather-free pillows")]]

\* the store before the first sync: empty, or with the guest a direct booking
\* or the seed created (no external identifier)
LocalGuests == {<<>>, <<[externalId |-> Null, phone |-> SamplePhone]>>}

\* the reservation of the guest who is on the phone with the assistant
CallerReservation == 1

InitSync ==
  /\ now = ScheduleStart
  /\ ticks = 0
  /\ reservations = <<>>
  /\ proactiveCalls = <<>>
  /\ wakeUpRequests = <<>>
  /\ schemaMaxAttempts = 3
  /\ dateFnsTruncates = FALSE
  /\ disp = [d \in DispIds |-> IdleDisp]
  /\ wake = IdleWake
  /\ last = NoLast
  /\ gateway = NoGatewayCalls
  /\ env \in {Configured, [Configured EXCEPT !.PMS_API_KEY = FALSE]}
  /\ guests \in LocalGuests
  /\ pms = [reservations |-> UpstreamReservations, guests |-> UpstreamGuests]
  /\ sync = IdleSync
  /\ toolWrites = <<>>
  /\ http = IdleHttp
  /\ sched = NoScheduling
  /\ calls = <<>>

NextSync ==
  \/ syncFromPMS
  \/ \E updates \in Updates : handleUpdateReservation(CallerReservation, updates)
  \/ \E k \in 1..NumUpstream : PmsChange(k)

SpecSync == InitSync /\ [][NextSync]_vars

\* ------------------------------------------------------ the trigger route
\* a header is a sequence of pieces: the scheme with its blank, then the
\* characters of the credential
BearerPrefix == "Bearer "

\* authHeader?.replace('Bearer ', ''): the first occurrence is removed
RECURSIVE ReplaceBearer(_)
ReplaceBearer(header) ==
  IF header = Null THEN Null
  ELSE IF Head(header) = BearerPrefix THEN Tail(header)
  ELSE <<Head(header)>> \o ReplaceBearer(Tail(header))

\* crypto.timingSafeEqual on buffers of equal length
timingSafeEqual(a, b) == \A k \in DOMAIN a : a[k] = b[k]

\* (variant: the comparison without the length check)
verifyCronSecretNoLength(secret) ==
  IF secret = Null THEN FALSE
  ELSE IF env.CRON_SECRET = Null THEN env.NODE_ENV = "development"
  ELSE LET expected == env.CRON_SECRET[1]
       IN \A k \in DOMAIN secret : k \in DOMAIN expected /\ secret[k] = expected[k]

\* verifyCronSecret(secret): an undefined or empty secret never passes
verifyCronSecret(secret) ==
  IF secret = Null THEN FALSE
  ELSE IF env.CRON_SECRET = Null THEN env.NODE_ENV = "development"
  ELSE LET expected == env.CRON_SECRET[1]
       IN IF Len(secret) # Len(expected) THEN FALSE
          ELSE timingSafeEqual(secret, expected)

RouteTypes == {"schedule", "process", "wakeup", "sync",
               "pre-arrival", "mid-stay", "pre-checkout", "post-stay"}

\* searchParams.get('type') || 'process'
TypeOf(param) == IF param = Null THEN "process" ELSE param[1]

\* GET up to the switch: 401 for a request that fails verification, 400 for an
\* unknown type, else the operations of the type start from fresh invocations
GET(header, param) ==
  /\ http.pc = "idle"
  /\ NoInvocation
  /\ sync.pc = "idle"
  /\ IF ~verifyCronSecret(ReplaceBearer(header))
     THEN /\ http' = [http EXCEPT !.status = Some(401), !.header = header]
          /\ UNCHANGED <<disp, wake, sync, last>>
     ELSE IF TypeOf(param) \notin RouteTypes
     THEN /\ http' = [http EXCEPT !.status = Some(400), !.header = header]
          /\ UNCHANGED <<disp, wake, sync, last>>
     ELSE /\ http.served < MaxRequests
          /\ http' = [pc |-> TypeOf(param), status |-> Null, header |-> header,
                      served |-> http.served + 1]
          /\ disp' = [d \in DispIds |-> IdleDisp]
          /\ wake' = IdleWake
          /\ sync' = IdleSync
          /\ last' = NoLast
  /\ UNCHANGED <<now, ticks, reservations, proactiveCalls, wakeUpRequests,
                 schemaMaxAttempts, dateFnsTruncates, calls, sched, gateway, env, guests, pms,
                 toolWrites>>

\* case 'schedule': the four schedulers, one after the other
RouteSchedule ==
  /\ http.pc = "schedule"
  /\ \/ last.op = "other" /\ schedulePreArrivalCalls
     \/ last.op = "preArrival" /\ scheduleMidStayCalls
     \/ last.op = "midStay" /\ schedulePreCheckoutCalls
     \/ last.op = "preCheckout" /\ schedulePostStayCalls

\* case 'process'
RouteProcess ==
  /\ http.pc = "process"
  /\ disp[1].ret = Null
  /\ processScheduledCalls(1, TRUE, {Null})

\* case 'wakeup'
RouteWakeup ==
  /\ http.pc = "wakeup"
  /\ wake.ret = Null
  /\ processWakeUpCalls

\* case 'sync'
RouteSync ==
  /\ http.pc = "sync"
  /\ sync.ret = Null
  /\ syncFromPMS

\* the per-milestone cases: the milestone's scheduler, then a dispatch sweep
\* filtered by its call-type
RoutePreArrival ==
  /\ http.pc = "pre-arrival"
  /\ \/ last.op = "other" /\ schedulePreArrivalCalls
     \/ /\ last.op = "preArrival"
        /\ disp[1].ret = Null
        /\ processScheduledCalls(1, TRUE, {Some("PRE_ARRIVAL")})

RouteMidStay ==
  /\ http.pc = "mid-stay"
  /\ \/ last.op = "other" /\ scheduleMidStayCalls
     \/ /\ last.op = "midStay"
        /\ disp[1].ret = Null
        /\ processScheduledCalls(1, TRUE, {Some("MID_STAY")})

RoutePreCheckout ==
  /\ http.pc = "pre-checkout"
  /\ \/ last.op = "other" /\ schedulePreCheckoutCalls
     \/ /\ last.op = "preCheckout"
        /\ disp[1].ret = Null
        /\ processScheduledCalls(1, TRUE, {Some("PRE_CHECKOUT")})

RoutePostStay ==
  /\ http.pc = "post-stay"
  /\ \/ last.op = "other" /\ schedulePostStayCalls
     \/ /\ last.op = "postStay"
        /\ disp[1].ret = Null
        /\ processScheduledCalls(1, TRUE, {Some("POST_STAY")})

\* the operations of the case have returned
RouteDone ==
  CASE http.pc = "schedule" -> last.op = "postStay"
    [] http.pc = "wakeup" -> wake.pc = "idle" /\ wake.ret # Null
    [] http.pc = "sync" -> sync.pc = "idle" /\ sync.ret # Null
    [] OTHER -> disp[1].pc = "idle" /\ disp[1].ret # Null

\* NextResponse.json({ success: true, ... })
Respond ==
  /\ http.pc # "idle"
  /\ RouteDone
  /\ http' = [http EXCEPT !.pc = "idle", !.status = Some(200)]
  /\ UNCHANGED <<now, ticks, reservations, proactiveCalls, wakeUpRequests,
                 schemaMaxAttempts, dateFnsTruncates, calls, sched, disp, wake, last, gateway,
                 env, guests, pms, sync, toolWrites>>

\* ------------------------------------------------ trigger specification
\* authorization headers of the requests: none, the scheme alone, the secret
\* as bearer token, tokens that differ from it in a character or in length,
\* the secret under another scheme
Headers ==
  {Null, <<BearerPrefix>>, <<BearerPrefix>> \o CronToken,
   <<BearerPrefix, "k", "e", "x">>, <<BearerPrefix, "k", "e">>,
   <<"Basic ">> \o CronToken}

Params == {Null, Some("bogus")} \cup {Some(t) : t \in RouteTypes}

TriggerStart == 4 * Day + 7 * Hour

\* environments of the route: the secret set, or missing in production or in
\* development
RouteEnvs ==
  {Configured,
   [Configured EXCEPT !.CRON_SECRET = Null],
   [Configured EXCEPT !.CRON_SECRET = Null, !.NODE_ENV = "development"]}

InitTrigger ==
  /\ now = TriggerStart
  /\ ticks = 0
  /\ reservations = [r \in ResIds |->
       [externalId |-> Null, guestId |-> 1, roomNumber |-> "101",
        checkInDate |-> 2 * Day, checkOutDate |-> 4 * Day, status |-> "CHECKED_IN",
        numberOfGuests |-> 2, specialRequests |-> Null]]
  /\ proactiveCalls \in InitialJobs
  /\ \A k \in 1..NumJobs : /\ proactiveCalls[k].scheduledTime = 16 * Hour
                           /\ proactiveCalls[k].maxAttempts = 3
  /\ wakeUpRequests = [k \in 1..NumWake |->
       [roomNumber |-> RoomOf(k), requestedTime |-> TriggerStart, status |-> "PENDING",
        attempts |-> 0, completedAt |-> Null]]
  /\ schemaMaxAttempts = 3
  /\ dateFnsTruncates = FALSE
  /\ disp = [d \in DispIds |-> IdleDisp]
  /\ wake = IdleWake
  /\ last = NoLast
  /\ gateway = NoGatewayCalls
  /\ env \in RouteEnvs
  /\ guests = <<[externalId |-> Null, phone |-> SamplePhone]>>
  /\ pms = [reservations |-> UpstreamReservations, guests |-> UpstreamGuests]
  /\ sync = IdleSync
  /\ toolWrites = <<>>
  /\ http = IdleHttp
  /\ sched = NoScheduling
  /\ calls = <<>>

NextTrigger ==
  \/ \E header \in Headers : \E param \in Params : GET(header, param)
  \/ RouteSchedule
  \/ RouteProcess
  \/ RouteWakeup
  \/ RouteSync
  \/ RoutePreArrival
  \/ RouteMidStay
  \/ RoutePreCheckout
  \/ RoutePostStay
  \/ Respond

SpecTrigger == InitTrigger /\ [][NextTrigger]_vars

\* ================================================================= claims

\* C1: the store never holds two ProactiveCall rows for the same
\* (reservation, call-type) pair when scheduling operations run one at a time,
\* whatever reservation changes and clock advances come between them.
AtMostOneCallPerMilestone ==
  \A i, j \in CallIds :
    (proactiveCalls[i].reservationId = proactiveCalls[j].reservationId
     /\ proactiveCalls[i].callType = proactiveCalls[j].callType) => i = j

\* a reservation that was selected twice by different milestones and once more
\* offered to a scheduler that already served it
OneCallPerMilestoneReached ==
  \E i, j \in CallIds :
    /\ i # j
    /\ proactiveCalls[i].reservationId = proactiveCalls[j].reservationId
    /\ proactiveCalls[i].callType = "MID_STAY"
    /\ proactiveCalls[j].callType = "PRE_CHECKOUT"
    /\ reservations[proactiveCalls[i].reservationId].status = "CHECKED_IN"
    /\ now > proactiveCalls[j].scheduledTime

\* C2: every pre-arrival invocation creates exactly one SCHEDULED PRE_ARRIVAL
\* row per reservation that is confirmed, checks in tomorrow and has no
\* pre-arrival row, and returns their number; an invocation that directly
\* follows another pre-arrival invocation creates no row and returns 0.
PreArrivalInvoked == last'.op = "preArrival" /\ last' # last

PreArrivalIdempotent ==
  [][PreArrivalInvoked =>
       LET eligible ==
             {r \in ResIds :
                /\ reservations[r].status = "CONFIRMED"
                /\ reservations[r].checkInDate \div Day = (now \div Day) + 1
                /\ ~ \E i \in CallIds : /\ proactiveCalls[i].reservationId = r
                                        /\ proactiveCalls[i].callType = "PRE_ARRIVAL"}
           old == Len(proactiveCalls)
           created == (old + 1)..Len(proactiveCalls')
       IN /\ SubSeq(proactiveCalls', 1, old) = proactiveCalls
          /\ last'.ret = Cardinality(eligible)
          /\ Cardinality(created) = Cardinality(eligible)
          /\ \A r \in eligible : \E k \in created :
               /\ proactiveCalls'[k].reservationId = r
               /\ proactiveCalls'[k].callType = "PRE_ARRIVAL"
               /\ proactiveCalls'[k].status = "SCHEDULED"
          /\ last'.prev # Null => (last'.ret = 0 /\ proactiveCalls' = proactiveCalls)
  ]_vars

\* the second of two successive pre-arrival invocations returned 0 after the
\* first had created a job for every reservation
PreArrivalTwiceReached ==
  /\ last.op = "preArrival"
  /\ last.prev = Some(NumRes)
  /\ last.ret = 0
  /\ Len(proactiveCalls) >= NumRes

\* a job some dispatch invocation is working on
InFlight(i) ==
  \E d \in DispIds : /\ disp[d].pc # "idle"
                     /\ disp[d].batch[disp[d].i].id = i

\* a job some dispatch invocation has selected and not yet worked on
Selected(i) ==
  \E d \in DispIds : \E k \in DOMAIN disp[d].batch :
    k > disp[d].i /\ disp[d].batch[k].id = i

\* C3: a job with maxAttempts = 3 whose three gateway calls were all rejected
\* is FAILED with attempts = 3 once the sweep has written the result, is in no
\* later batch and has had exactly three calls placed.
RetryCeilingRespected ==
  \A i \in CallIds :
    (/\ proactiveCalls[i].maxAttempts = 3
     /\ Count(gateway.rejected, i) >= 3
     /\ ~InFlight(i))
    => /\ proactiveCalls[i].status = "FAILED"
       /\ proactiveCalls[i].attempts = 3
       /\ Count(gateway.placed, i) = 3
       /\ ~Selected(i)

\* three rejections, the job failed, and a sweep ran after its last retry time
RetryCeilingReached ==
  \E i \in CallIds :
    /\ proactiveCalls[i].maxAttempts = 3
    /\ Count(gateway.rejected, i) = 3
    /\ proactiveCalls[i].status = "FAILED"
    /\ now >= proactiveCalls[i].scheduledTime
    /\ disp[1].pc = "idle"
    /\ disp[1].ret = Some(0)
    /\ disp[1].rejected = 0

FailedWithinMaxAttempts ==
  \A i \in CallIds :
    proactiveCalls[i].status = "FAILED"
      => proactiveCalls[i].attempts <= proactiveCalls[i].maxAttempts

\* C6: dispatch sweeps that run one at a time place at most 3 gateway calls
\* for a job and never raise its attempt count above 3, whatever maxAttempts.
HardCeiling ==
  \A i \in CallIds :
    /\ proactiveCalls[i].attempts <= 3
    /\ Count(gateway.placed, i) <= 3

\* a job with maxAttempts = 4, three rejected calls, still SCHEDULED and due
\* by its time, left out by a later sweep
HardCeilingReached ==
  \E i \in CallIds :
    /\ proactiveCalls[i].maxAttempts = 4
    /\ proactiveCalls[i].attempts = 3
    /\ proactiveCalls[i].status = "SCHEDULED"
    /\ proactiveCalls[i].scheduledTime <= now
    /\ disp[1].pc = "idle"
    /\ disp[1].ret = Some(0)
    /\ disp[1].rejected = 0

\* C7: the update after an accepted call stores the handle the gateway
\* returned and changes nothing else: the job is IN_PROGRESS, its attempts are
\* one more than when it was selected, actualTime is the sweep's time.
AcceptedStaysInProgress ==
  [][\A d \in DispIds :
       (/\ disp[d].pc = "write"
        /\ disp'[d] # disp[d]
        /\ disp[d].result[1].success)
       => LET call == disp[d].batch[disp[d].i]
              after == proactiveCalls'[call.id]
          IN /\ after.vapiCallId = Some(disp[d].result[1].callId)
             /\ after.status = "IN_PROGRESS"
             /\ after.attempts = call.attempts + 1
             /\ after.actualTime = Some(disp[d].now)
             /\ after.scheduledTime = proactiveCalls[call.id].scheduledTime
             /\ after.notes = proactiveCalls[call.id].notes
  ]_vars

AcceptedReached ==
  \E i \in CallIds :
    /\ proactiveCalls[i].vapiCallId # Null
    /\ proactiveCalls[i].status = "IN_PROGRESS"
    /\ proactiveCalls[i].attempts = 2
    /\ disp[1].pc = "idle"
    /\ disp[1].ret = Some(1)

\* C8: the value a dispatch invocation returns is the number of calls of its
\* batch the gateway accepted.
ReturnCountsAccepted ==
  \A d \in DispIds :
    (disp[d].pc = "idle" /\ disp[d].ret # Null) => disp[d].ret = Some(disp[d].accepted)

\* a sweep over two jobs, one accepted and one rejected, returned 1
ReturnCountsAcceptedReached ==
  /\ disp[1].pc = "idle"
  /\ disp[1].ret = Some(1)
  /\ disp[1].accepted = 1
  /\ disp[1].rejected = 1

\* C9: a wake-up request reaching the reservation lookup when no reservation
\* of its room is checked in is marked FAILED there, with its attempt count
\* unchanged and no gateway call; a FAILED request is never touched again.
NoReservationFails ==
  [][/\ (wake.pc = "lookup" /\ wake' # wake
         /\ ~ \E r \in ResIds :
                /\ reservations[r].roomNumber = wake.batch[wake.i].roomNumber
                /\ reservations[r].status = "CHECKED_IN")
        => LET id == wake.batch[wake.i].id
           IN /\ wakeUpRequests'[id].status = "FAILED"
              /\ wakeUpRequests'[id].attempts = wakeUpRequests[id].attempts
              /\ gateway' = gateway
              /\ wake'.pc # "call"
     /\ \A i \in WakeIds :
          wakeUpRequests[i].status = "FAILED"
            => /\ wakeUpRequests'[i] = wakeUpRequests[i]
               /\ Count(gateway'.wakePlaced, i) = Count(gateway.wakePlaced, i)
  ]_vars

\* a request failed without an attempt, and a later sweep ran while it was
\* still inside the selection window
NoReservationFailsReached ==
  \E i \in WakeIds :
    /\ wakeUpRequests[i].status = "FAILED"
    /\ wakeUpRequests[i].attempts = 0
    /\ Count(gateway.wakePlaced, i) = 0
    /\ wake.pc = "idle"
    /\ wake.ret = Some(0)
    /\ wake.now > wakeUpRequests[i].requestedTime
    /\ wakeUpRequests[i].requestedTime >= fiveMinutesAgo(wake.now)

\* C10: no wake-up request receives a third gateway call.
NoThirdWakeUpCall ==
  \A i \in WakeIds : Count(gateway.wakePlaced, i) <= 2

\* the step in which a wake-up sweep runs its pending-request query
WakeQueried == wake.pc = "idle" /\ wake'.now = now /\ wake'.now # wake.now

\* the pending requests with now - 5 minutes <= requestedTime <= now
PendingInFiveMinutes(t) ==
  {i \in WakeIds : /\ wakeUpRequests[i].status = "PENDING"
                   /\ wakeUpRequests[i].requestedTime >= t - 5
                   /\ wakeUpRequests[i].requestedTime <= t}

\* C11: a wake-up sweep run at time now selects exactly the pending requests
\* whose requested time lies in [now - 5 minutes, now], at most 10 of them.
WakeWindowFiveMinutes ==
  [][WakeQueried =>
       LET selected == {wake'.batch[k].id : k \in DOMAIN wake'.batch}
           inWindow == PendingInFiveMinutes(now)
       IN /\ selected \subseteq inWindow
          /\ Cardinality(selected) = Len(wake'.batch)
          /\ IF Cardinality(inWindow) <= 10 THEN selected = inWindow
             ELSE Len(wake'.batch) = 10
  ]_vars

\* an upstream reservation with a row in the store
Upserted(rows, id) == \E r \in DOMAIN rows : rows[r].externalId = Some(id)

\* C12: in a sync over n upstream reservations an item that throws is counted
\* in errors and ends neither the loop nor the invocation: every item
\* is counted once, the invocation returns only after the last item with
\* synced + errors = n and errors = the number of items that threw, and every
\* item that did not throw has its reservation in the store.
SyncIsolatesFailures ==
  [][(sync.pc = "item" /\ sync' # sync) =>
       LET k == sync.i
           n == Len(sync.list)
           returned == sync'.pc = "idle"
           synced == IF returned THEN sync'.ret[1].synced ELSE sync'.synced
           errors == IF returned THEN sync'.ret[1].errors ELSE sync'.errors
           threw == sync'.outcome # Some("synced")
           failed == IF threw THEN sync.failed \cup {k} ELSE sync.failed
       IN /\ returned <=> k = n
          /\ returned => sync'.ret # Null
          /\ synced + errors = k
          /\ errors = Cardinality(failed)
          /\ threw => reservations' = reservations
          /\ \A j \in (1..k) \ failed : Upserted(reservations', sync.list[j].id)
  ]_vars

\* C12 witness: a sync returned with its first item failed and every other
\* reservation upserted
SyncIsolatesFailuresReached ==
  /\ sync.pc = "idle"
  /\ sync.ret = Some([synced |-> NumUpstream - 1, errors |-> 1])
  /\ Len(reservations) = NumUpstream - 1
  /\ ~Upserted(reservations, 1)
  /\ guests \notin LocalGuests

\* C13: when the reservation-list request fails, syncFromPMS returns
\* synced = 0 and errors >= 1 and leaves guests and reservations as they were.
ListFailureContained ==
  [][(sync.pc = "idle" /\ sync' # sync /\ sync'.outcome = Some("list request failed")) =>
       /\ sync'.pc = "idle"
       /\ sync'.ret # Null
       /\ sync'.ret[1].synced = 0
       /\ sync'.ret[1].errors >= 1
       /\ guests' = guests
       /\ reservations' = reservations
  ]_vars

\* a list failure after an earlier sync had filled the store
ListFailureContainedReached ==
  /\ sync.outcome = Some("list request failed")
  /\ sync.ret = Some([synced |-> 0, errors |-> 1])
  /\ Len(reservations) = NumUpstream

\* C16: an upstream guest without a local row by external identifier, whose
\* phone is the phone of a locally created guest, is resolved to that guest:
\* no guest row is added and the reservation is synced, linked to that guest.
GuestMatchedByPhone ==
  [][(/\ sync.pc = "item"
      /\ sync' # sync
      /\ sync'.outcome # Some("guest request failed")) =>
       LET pmsRes == sync.list[sync.i]
           pmsGuest == pms.guests[pmsRes.guestId]
           samePhone == {g \in DOMAIN guests : /\ guests[g].externalId = Null
                                               /\ guests[g].phone = pmsGuest.phone}
       IN (GuestByExternalId(pmsGuest.id) = {} /\ samePhone # {}) =>
            /\ Len(guests') = Len(guests)
            /\ sync'.outcome = Some("synced")
            /\ \E r \in DOMAIN reservations' :
                 /\ reservations'[r].externalId = Some(pmsRes.id)
                 /\ reservations'[r].guestId \in samePhone
  ]_vars

\* C17: a sync that upserts a reservation leaves every column in place that
\* an updateReservation tool call wrote.
ToolWritesSurviveSync ==
  [][(sync.pc = "item" /\ sync' # sync /\ sync'.outcome = Some("synced")) =>
       \A k \in DOMAIN toolWrites :
         k[1] \in DOMAIN reservations => reservations'[k[1]][k[2]] = toolWrites[k]
  ]_vars

\* C14: without gateway credentials a dispatch invocation returns 0 and leaves
\* every job's status, attempt count, scheduled time and notes as they were.
DispatchNoOpWhenUnconfigured ==
  [][~VapiConfigured =>
       /\ \A d \in DispIds : disp'[d].ret \in {Null, Some(0)}
       /\ \A i \in CallIds :
            /\ proactiveCalls'[i].status = proactiveCalls[i].status
            /\ proactiveCalls'[i].attempts = proactiveCalls[i].attempts
            /\ proactiveCalls'[i].scheduledTime = proactiveCalls[i].scheduledTime
            /\ proactiveCalls'[i].notes = proactiveCalls[i].notes
  ]_vars

\* a request was answered in this step without entering the switch
Answered(status) ==
  /\ http.pc = "idle"
  /\ http'.pc = "idle"
  /\ http' # http
  /\ http'.status = Some(status)

\* the credential a request presents: what is left of its authorization header
\* once the bearer scheme is removed
PresentedToken(header) == ReplaceBearer(header)

\* C15: with a shared secret configured, a trigger request whose bearer token
\* is missing or differs from the secret is answered 401, and the step that
\* answers it starts no scheduling, dispatch, wake-up or sync operation and
\* leaves the store and the gateway untouched.
UnauthorizedHasNoEffect ==
  [][(/\ env.CRON_SECRET # Null
      /\ http.pc = "idle"
      /\ http' # http
      /\ \/ PresentedToken(http'.header) = Null
         \/ PresentedToken(http'.header) # env.CRON_SECRET[1])
     => /\ Answered(401)
        /\ UNCHANGED <<reservations, proactiveCalls, wakeUpRequests, guests,
                       gateway, toolWrites, disp, wake, sync, last>>]_vars

\* C15 witness: after an authorized request has run its operation, a request
\* with a token one character off the configured secret has been answered 401.
UnauthorizedHasNoEffectReached ==
  /\ env.CRON_SECRET # Null
  /\ http.served > 0
  /\ http.pc = "idle"
  /\ http.status = Some(401)
  /\ http.header = <<BearerPrefix, "k", "e", "x">>

\* the first update of the job an invocation works on is in the store
Marked(rows, d) ==
  LET call == disp[d].batch[disp[d].i]
  IN /\ rows[call.id].status = "IN_PROGRESS"
     /\ rows[call.id].attempts = call.attempts + 1
     /\ rows[call.id].actualTime = Some(disp[d].now)

\* C18: whenever a sweep invokes the gateway for a job, the job's row is
\* already IN_PROGRESS with the attempt counted and actualTime set; and when
\* the invocation stops between that write and the gateway's response, the
\* row stays so.
MarkedBeforeGateway ==
  [][/\ \A i \in CallIds :
          Count(gateway'.placed, i) > Count(gateway.placed, i)
          => \E d \in DispIds : /\ disp[d].pc = "call"
                                /\ disp[d].batch[disp[d].i].id = i
                                /\ Marked(proactiveCalls, d)
     /\ \A d \in DispIds :
          disp[d].pc = "call" /\ disp'[d].pc = "idle"
          => Marked(proactiveCalls, d) /\ Marked(proactiveCalls', d)]_vars

\* C18 witness: an invocation was stopped after the first update of a job and
\* before the gateway placed the call; no invocation runs, and the job is
\* IN_PROGRESS with one attempt counted and no call handle.
MarkedBeforeGatewayReached ==
  /\ NoInvocation
  /\ \E i \in CallIds : /\ Count(gateway.placed, i) = 0
                        /\ proactiveCalls[i].status = "IN_PROGRESS"
                        /\ proactiveCalls[i].attempts = 1
                        /\ proactiveCalls[i].actualTime # Null
                        /\ proactiveCalls[i].vapiCallId = Null

\* the rows a dispatch query may return at time t, read off the columns
Selectable(rows, i, filter, t) ==
  /\ rows[i].status = "SCHEDULED"
  /\ rows[i].scheduledTime <= t
  /\ rows[i].attempts < 3
  /\ (filter # Null => rows[i].callType = filter[1])

\* the jobs of the batch of invocation d
BatchIds(d) == {disp[d].batch[k].id : k \in DOMAIN disp[d].batch}

\* C19: the batch a dispatch invocation takes holds only jobs that were
\* SCHEDULED, due and below three attempts (and of the filter's call-type)
\* when it was selected, holds at most 10 of them, and leaves out no such job
\* that was scheduled earlier than one it holds; and the invocation writes to
\* no job outside its batch.
BatchOldestSelectable ==
  [][\A d \in DispIds :
       /\ (disp[d].pc = "idle" /\ disp'[d].pc = "mark")
          => LET taken == {disp'[d].batch[k].id : k \in DOMAIN disp'[d].batch}
                 filter == disp'[d].filter
             IN /\ \A i \in taken : Selectable(proactiveCalls, i, filter, now)
                /\ Cardinality(taken) = Len(disp'[d].batch)
                /\ Len(disp'[d].batch) <= 10
                /\ \A i \in taken : \A j \in CallIds \ taken :
                     Selectable(proactiveCalls, j, filter, now)
                     => proactiveCalls[j].scheduledTime >= proactiveCalls[i].scheduledTime
       /\ \A i \in CallIds :
            proactiveCalls'[i] # proactiveCalls[i]
            => \E e \in DispIds : disp[e].pc # "idle" /\ i \in BatchIds(e)]_vars

\* C19 witness: a sweep took ten jobs and finished them while a due job
\* that was scheduled later than all of them is still untouched.
BatchOldestSelectableReached ==
  /\ disp[1].pc = "idle"
  /\ disp[1].ret # Null
  /\ disp[1].accepted + disp[1].rejected = 10
  /\ \E j \in CallIds :
       /\ Selectable(proactiveCalls, j, Null, now)
       /\ proactiveCalls[j].actualTime = Null
       /\ \A i \in CallIds \ {j} :
            proactiveCalls[i].actualTime = Some(now)
            => proactiveCalls[i].scheduledTime < proactiveCalls[j].scheduledTime

\* the gateway has just answered the call an invocation placed for job i
GatewayAnswered(i) ==
  \E d \in DispIds : /\ disp[d].pc = "write"
                     /\ disp[d].batch[disp[d].i].id = i
                     /\ Count(gateway.placed, i) > 0

\* C20: under repeated sweeps, a job that is SCHEDULED, due and below three
\* attempts eventually has one more gateway call attempted, while other due
\* jobs fill the batches and rejected jobs return an hour later.
NoStarvation ==
  \A i \in 1..BatchJobs :
    Selectable(proactiveCalls, i, Null, now) ~> GatewayAnswered(i)

\* C20 witness: the job that the first batch left out has had its call
\* attempted while a job whose calls were rejected twice is due again.
NoStarvationReached ==
  /\ NoInvocation
  /\ \E i \in CallIds : /\ proactiveCalls[i].scheduledTime >= DispatchStart - Surplus
                        /\ proactiveCalls[i].scheduledTime < DispatchStart
                        /\ Count(gateway.placed, i) > 0
  /\ \E j \in CallIds : /\ Count(gateway.rejected, j) = 2
                        /\ Selectable(proactiveCalls, j, Null, now)

\* C21: when a store write fails while a sweep works on a job, the sweep goes
\* on with the next job of its batch or, after the last job, returns its
\* count; the error does not leave the invocation.
StoreErrorContained ==
  [][\A d \in DispIds :
       (disp[d].pc \in {"mark", "write"} /\ disp'[d] # disp[d])
       => /\ ~(disp'[d].pc = "idle" /\ disp'[d].ret = Null)
          /\ disp[d].i < Len(disp[d].batch) /\ disp[d].pc = "write"
             => disp'[d].pc = "mark" /\ disp'[d].i = disp[d].i + 1]_vars

\* C22: while the 'process' trigger and a per-milestone trigger run their
\* dispatch invocations at once, no job row is in the batches of both, and so
\* no two gateway calls are placed for a job from the same attempt count.
DispatchRowsDisjoint ==
  \A d \in DispIds : \A e \in DispIds \ {d} :
    (disp[d].pc # "idle" /\ disp[e].pc # "idle")
    => BatchIds(d) \cap BatchIds(e) = {}

\* C23: while the 'schedule' trigger and the 'pre-arrival' trigger run
\* schedulePreArrivalCalls at once, no reservation has more than one
\* PRE_ARRIVAL job.
OnePreArrivalJobUnderOverlap ==
  \A r \in ResIds :
    Cardinality({i \in CallIds : /\ proactiveCalls[i].reservationId = r
                                 /\ proactiveCalls[i].callType = "PRE_ARRIVAL"}) <= 1

\* the jobs a step added for reservation r
NewJobs(r) ==
  {i \in DOMAIN proactiveCalls' \ DOMAIN proactiveCalls :
     proactiveCalls'[i].reservationId = r}

MidStayOnSecondDay ==
  [][last'.op = "midStay"
     => LET midnight == now - (now % Day)
        IN \A r \in DOMAIN reservations :
             LET due == /\ reservations[r].status = "CHECKED_IN"
                        /\ reservations[r].checkInDate >= midnight - Day
                        /\ reservations[r].checkInDate < midnight
                        /\ \A i \in CallIds :
                             proactiveCalls[i].reservationId = r
                             => proactiveCalls[i].callType # "MID_STAY"
             IN Cardinality(NewJobs(r)) = (IF due THEN 1 ELSE 0)]_vars

\* the entry of PROACTIVE_CALL_CONFIGS that belongs to a call-type
OwnConfig(type) ==
  CASE type = "PRE_ARRIVAL" -> "preArrival"
    [] type = "MID_STAY" -> "midStay"
    [] type = "PRE_CHECKOUT" -> "preCheckout"
    [] type = "POST_STAY" -> "postStay"

\* C26: every gateway call of dispatch is placed with the configuration entry
\* (system prompt, maximum duration) and the opening line of the job's own
\* call-type.
CallContentPerType ==
  \A request \in gateway.assistant :
    /\ request.config = OwnConfig(proactiveCalls[request.id].callType)
    /\ request.firstMessage = proactiveCalls[request.id].callType

\* C27: once the end-of-call-report webhook of the call the gateway accepted
\* for a job has been handled, the job is no longer IN_PROGRESS.
WebhookFinalizesJob ==
  \A i \in CallIds :
    (/\ proactiveCalls[i].vapiCallId # Null
     /\ proactiveCalls[i].vapiCallId[1] \in DOMAIN calls
     /\ calls[proactiveCalls[i].vapiCallId[1]].status = "ENDED")
    => proactiveCalls[i].status # "IN_PROGRESS"

\* C28: a job whose gateway calls were all rejected is on its way to FAILED:
\* while it is SCHEDULED its attempt count is one the dispatch query still
\* selects, so it is never left SCHEDULED and excluded from every later sweep.
RejectedJobReachesFailed ==
  \A i \in CallIds :
    (/\ Count(gateway.rejected, i) = Count(gateway.placed, i)
     /\ proactiveCalls[i].maxAttempts >= 1
     /\ proactiveCalls[i].status = "SCHEDULED")
    => proactiveCalls[i].attempts < 3

\* C29: a wake-up request that is still PENDING after a rejected call can be
\* settled by a later sweep: its requested time has not fallen behind the
\* window the sweeps query, so that no request is left PENDING for ever.
WakeUpRequestSettles ==
  \A i \in WakeIds :
    (wakeUpRequests[i].status = "PENDING" /\ wakeUpRequests[i].attempts > 0)
    => wakeUpRequests[i].requestedTime >= fiveMinutesAgo(now)

\* C30: dispatch places no gateway call for a job whose reservation is
\* CANCELLED when the call is placed.
NoCallForCancelled ==
  [][\A i \in CallIds :
       Count(gateway'.placed, i) > Count(gateway.placed, i)
       => reservations[proactiveCalls[i].reservationId].status # "CANCELLED"]_vars
====
